---- MODULE Spec2Model ----
(***************************************************************************)
(* A model of SteganoGAN (src/models.py): the message codec used by encode *)
(* and decode (_make_payload, decode), the training loop (fit, _fit_critic,*)
(* _fit_coders, _validate) and the checkpoint loader (load).               *)
(*                                                                         *)
(* Texts are sequences of code points, byte strings are sequences of       *)
(* numbers in 0..255 and bit streams are sequences of 0/1.                 *)
(***************************************************************************)
EXTENDS Integers, Sequences, FiniteSets, TLC

\* ------------------------------------------------------------------ bounds
MaxTextLen == 5
MaxWidth == 8
MaxHeight == 4
MaxDepth == 3
MaxChunks == 5

\* ------------------------------------------------------- program constants
\* [0] * 32 in _make_payload: the terminator, in bits.
TerminatorBits == 32
\* b'\x00\x00\x00\x00' in decode: the terminator, in bytes.
TerminatorBytes == 4

\* Code points the modelled texts are drawn from: NUL and "A" (ASCII) and
\* U+00E9 (two bytes in UTF-8).
TextChars == {0, 65, 233}
\* Bytes a foreign image's recovered stream is drawn from: NUL, "A", "B" and
\* 0xC3, which alone is a truncated two-byte sequence (not valid UTF-8).
StreamBytes == {0, 65, 66, 195}

\* ---------------------------------------------------------------- state
\* encode / decode: the position, the arguments of encode, the payload it
\* built, the bit stream the recoverer reads from the image, decode's result.
VARIABLES cpc, text, shape, payload, image, result
\* fit: the position in fit, the object's fields (log_dir, the optimizers,
\* epochs, the parameters and their gradients, fit_metrics, history), the
\* checkpoints written, fit's arguments and locals (fit_args, epoch, batch,
\* metrics), and the record of the run: applied (the gradients the last
\* optimizer step read), requested, built, critic_fitted.
VARIABLES pc, log_dir, critic_optimizer, decoder_optimizer, epochs, params, grad,
          applied, fit_args, epoch, batch, metrics, fit_metrics, history,
          checkpoints, requested, built, critic_fitted
\* load: the position, the arguments and the outcome.
VARIABLES lpc, load_args, loaded

cvars == <<cpc, text, shape, payload, image, result>>
tvars == <<pc, log_dir, critic_optimizer, decoder_optimizer, epochs, params, grad,
           applied, fit_args, epoch, batch, metrics, fit_metrics, history,
           checkpoints, requested, built, critic_fitted>>
lvars == <<lpc, load_args, loaded>>
vars == <<cvars, tvars, lvars>>

IsAscii(t) == \A i \in DOMAIN t : t[i] < 128

\* --------------------------------------------------------- utils (codec)
\* str.encode('utf-8') for code points below U+0800.
Utf8Encode(t) ==
    LET enc(cp) == IF cp < 128 THEN <<cp>>
                   ELSE <<192 + (cp \div 64), 128 + (cp % 64)>>
        F[i \in 0..Len(t)] == IF i = 0 THEN <<>> ELSE F[i - 1] \o enc(t[i])
    IN F[Len(t)]

\* One byte as 8 bits, most significant first.
ByteToBits(b) == [k \in 1..8 |-> (b \div (2 ^ (8 - k))) % 2]

bytearray_to_bits(x) ==
    [i \in 1..(8 * Len(x)) |-> ByteToBits(x[((i - 1) \div 8) + 1])[((i - 1) % 8) + 1]]

text_to_bits(t) == bytearray_to_bits(Utf8Encode(t))

\* Whole bytes only: the trailing len(bits) % 8 bits are dropped.
bits_to_bytearray(bits) ==
    [b \in 1..(Len(bits) \div 8) |->
        LET o == 8 * (b - 1)
        IN 128 * bits[o + 1] + 64 * bits[o + 2] + 32 * bits[o + 3] + 16 * bits[o + 4]
           + 8 * bits[o + 5] + 4 * bits[o + 6] + 2 * bits[o + 7] + bits[o + 8]]

\* bytes.decode('utf-8') for sequences of one and two bytes; ok = FALSE is
\* the UnicodeDecodeError.
Utf8Decode(x) ==
    LET F[i \in 1..(Len(x) + 1)] ==
            IF i > Len(x) THEN [ok |-> TRUE, text |-> <<>>]
            ELSE IF x[i] < 128
                 THEN LET r == F[i + 1]
                      IN [ok |-> r.ok, text |-> <<x[i]>> \o r.text]
            ELSE IF /\ x[i] >= 194 /\ x[i] <= 223 /\ i + 1 <= Len(x)
                    /\ x[i + 1] >= 128 /\ x[i + 1] <= 191
                 THEN LET r == F[i + 2]
                      IN [ok |-> r.ok,
                          text |-> <<(x[i] - 192) * 64 + (x[i + 1] - 128)>> \o r.text]
            ELSE [ok |-> FALSE, text |-> <<>>]
    IN F[1]

\* The decoded text, or False (ok = FALSE) for a fragment that is not valid.
bytearray_to_text(x) ==
    LET r == Utf8Decode(x)
    IN IF r.ok THEN r ELSE [ok |-> FALSE, text |-> <<>>]

\* ------------------------------------------------------------ _make_payload
Zeros(n) == [i \in 1..n |-> 0]

\* while len(payload) < capacity: payload += message, where payload and
\* message are the same list object: each round appends the list to itself.
RECURSIVE Tile(_, _)
Tile(list, capacity) ==
    IF Len(list) < capacity THEN Tile(list \o list, capacity) ELSE list

\* payload[:capacity]
Truncate(list, capacity) ==
    SubSeq(list, 1, IF capacity < Len(list) THEN capacity ELSE Len(list))

\* The bits laid out column by column: .view(1, depth, width, height) with
\* the last two axes swapped back.
View_Transposed(flat, depth, height, width) ==
    [d \in 1..depth |-> [h \in 1..height |-> [w \in 1..width |->
        flat[((d - 1) * width + (w - 1)) * height + h]]]]

\* torch.FloatTensor(payload).view(1, depth, height, width): row-major.
View(flat, depth, height, width) ==
    [d \in 1..depth |-> [h \in 1..height |-> [w \in 1..width |->
        flat[((d - 1) * height + (h - 1)) * width + w]]]]

\* The terminator one byte short: [0] * 24.
_make_payload_ShortTerminator(width, height, depth, t) ==
    LET message == text_to_bits(t) \o Zeros(TerminatorBits - 8)
        capacity == width * height * depth
    IN View(Truncate(Tile(message, capacity), capacity), depth, height, width)

_make_payload(width, height, depth, t) ==
    LET message == text_to_bits(t) \o Zeros(TerminatorBits)
        capacity == width * height * depth
    IN View(Truncate(Tile(message, capacity), capacity), depth, height, width)

\* tensor.view(-1): the elements in row-major order.
Flatten(tensor) ==
    LET depth == Len(tensor)
        height == Len(tensor[1])
        width == Len(tensor[1][1])
    IN [i \in 1..(depth * height * width) |->
           tensor[((i - 1) \div (height * width)) + 1]
                 [(((i - 1) \div width) % height) + 1]
                 [((i - 1) % width) + 1]]

\* ------------------------------------------------------------------ decode
IsTerminatorAt(x, i) == \A k \in 0..(TerminatorBytes - 1) : x[i + k] = 0

\* bytes.split(b'\x00\x00\x00\x00'): leftmost, non-overlapping occurrences.
RECURSIVE SplitFrom(_, _)
SplitFrom(x, i) ==
    IF i + TerminatorBytes - 1 > Len(x) THEN <<x>>
    ELSE IF IsTerminatorAt(x, i)
         THEN <<SubSeq(x, 1, i - 1)>>
              \o SplitFrom(SubSeq(x, i + TerminatorBytes, Len(x)), 1)
    ELSE SplitFrom(x, i + 1)

Split(x) == SplitFrom(x, 1)

\* Counter: the keys in order of first insertion, each with its count.
CounterAdd(counter, key) ==
    IF \E i \in DOMAIN counter : counter[i].key = key
    THEN [i \in DOMAIN counter |->
            IF counter[i].key = key
            THEN [key |-> key, n |-> counter[i].n + 1]
            ELSE counter[i]]
    ELSE Append(counter, [key |-> key, n |-> 1])

\* The loop without its "if candidate:" test: every fragment is counted.
Candidates_CountAll(fragments) ==
    LET F[i \in 0..Len(fragments)] ==
            IF i = 0 THEN <<>>
            ELSE CounterAdd(F[i - 1], bytearray_to_text(fragments[i]).text)
    IN F[Len(fragments)]

\* The loop of decode over the fragments: if candidate: candidates[candidate] += 1
Candidates(fragments) ==
    LET F[i \in 0..Len(fragments)] ==
            IF i = 0 THEN <<>>
            ELSE LET candidate == bytearray_to_text(fragments[i])
                 IN IF candidate.ok /\ candidate.text # <<>>
                    THEN CounterAdd(F[i - 1], candidate.text)
                    ELSE F[i - 1]
    IN F[Len(fragments)]

\* The first key inserted, whatever its count.
MostCommon_FirstInserted(counter) == counter[1]

\* The last of the items of maximal count.
MostCommon_LastMax(counter) ==
    counter[CHOOSE i \in DOMAIN counter :
                /\ \A j \in DOMAIN counter : counter[j].n <= counter[i].n
                /\ \A j \in (i + 1)..Len(counter) : counter[j].n < counter[i].n]

\* Counter.most_common(1)[0]: max(items, key=count), which keeps the first
\* of the items of maximal count, in the Counter's insertion order.
MostCommon(counter) ==
    counter[CHOOSE i \in DOMAIN counter :
                /\ \A j \in DOMAIN counter : counter[j].n <= counter[i].n
                /\ \A j \in 1..(i - 1) : counter[j].n < counter[i].n]

DecodeBits(bits) ==
    LET candidates == Candidates(Split(bits_to_bytearray(bits)))
    IN IF Len(candidates) = 0
       THEN [status |-> "Failed to find message.", text |-> <<>>]
       ELSE [status |-> "ok", text |-> MostCommon(candidates).key]

\* ----------------------------------------------------- codec state machine
Texts == UNION {[1..n -> TextChars] : n \in 0..MaxTextLen}

Terminator == Zeros(TerminatorBytes)
Chunks == {<<b>> : b \in StreamBytes} \cup {Terminator}
ChunkSeqs == UNION {[1..n -> Chunks] : n \in 0..MaxChunks}
Tails == {<<>>, <<1>>, <<0, 0, 0, 0, 0, 0, 0>>}

Concat(cs) ==
    LET F[i \in 0..Len(cs)] == IF i = 0 THEN <<>> ELSE F[i - 1] \o cs[i]
    IN F[Len(cs)]

NoResult == [status |-> "none", text |-> <<>>]
NoShape == [width |-> 0, height |-> 0, depth |-> 0]

CodecInit ==
    /\ cpc = "start"
    /\ text = <<>>
    /\ shape = NoShape
    /\ payload = <<>>
    /\ image = <<>>
    /\ result = NoResult

\* encode(cover, output, text): the payload is sized to the cover and the
\* written image carries it; the embedder and the recoverer are taken to be
\* a lossless channel, so the stream recovered from the image is the payload.
Encode ==
    /\ cpc = "start"
    /\ \E t \in Texts, w \in 1..MaxWidth, h \in 1..MaxHeight, d \in 1..MaxDepth :
          /\ text' = t
          /\ shape' = [width |-> w, height |-> h, depth |-> d]
          /\ payload' = _make_payload(w, h, d, t)
          /\ image' = Flatten(payload')
    /\ cpc' = "encoded"
    /\ UNCHANGED <<result, tvars, lvars>>

\* An image that encode did not write: the recoverer's thresholded output is
\* any bit stream.
ForeignImage ==
    /\ cpc = "start"
    /\ \E cs \in ChunkSeqs, tail \in Tails :
          image' = bytearray_to_bits(Concat(cs)) \o tail
    /\ cpc' = "foreign"
    /\ UNCHANGED <<text, shape, payload, result, tvars, lvars>>

\* decode(image) of an existing image file.
Decode ==
    /\ cpc \in {"encoded", "foreign"}
    /\ result' = DecodeBits(image)
    /\ cpc' = IF cpc = "encoded" THEN "roundtrip" ELSE "decoded"
    /\ UNCHANGED <<text, shape, payload, image, tvars, lvars>>

\* decode(image) of a path that does not exist.
DecodeMissing ==
    /\ cpc = "start"
    /\ result' = [status |-> "Unable to read", text |-> <<>>]
    /\ cpc' = "unreadable"
    /\ UNCHANGED <<text, shape, payload, image, tvars, lvars>>

CodecNext == Encode \/ ForeignImage \/ Decode \/ DecodeMissing

\* ------------------------------------------------------ codec properties
Capacity == shape.width * shape.height * shape.depth
Message == text_to_bits(text) \o Zeros(TerminatorBits)
Decoded == cpc \in {"decoded", "roundtrip"}
Fits == Len(text_to_bits(text)) + TerminatorBits <= Capacity

\* The fragments of a stream, in stream order, each as bytearray_to_text
\* gives it.
FragmentTexts(bits) ==
    LET fragments == Split(bits_to_bytearray(bits))
    IN [i \in DOMAIN fragments |-> bytearray_to_text(fragments[i])]
Decodable(ft, i) == ft[i].ok /\ ft[i].text # <<>>
CandidateTexts(ft) == {ft[i].text : i \in {j \in DOMAIN ft : Decodable(ft, j)}}
TallyOf(ft, t) == Cardinality({i \in DOMAIN ft : Decodable(ft, i) /\ ft[i].text = t})
FirstOccurrence(ft, t) ==
    CHOOSE i \in DOMAIN ft :
        /\ Decodable(ft, i) /\ ft[i].text = t
        /\ \A j \in 1..(i - 1) : ~(Decodable(ft, j) /\ ft[j].text = t)
HasNulRun(t) ==
    \E i \in 1..(Len(t) - TerminatorBytes + 1) :
        \A k \in 0..(TerminatorBytes - 1) : t[i + k] = 0

\* C1 as stated: every plain-ASCII text that fits the capacity with its
\* terminator is returned by decode from the stream encode produced.
RoundTripAnyAscii ==
    (cpc = "roundtrip" /\ IsAscii(text) /\ Fits)
        => (result.status = "ok" /\ result.text = text)

\* C1 as amended: the round trip returns the text when the text, besides
\* being plain ASCII and fitting the capacity, is not empty, does not end in
\* a NUL character and holds no run of four NUL characters.
RoundTrip ==
    (/\ cpc = "roundtrip" /\ IsAscii(text) /\ Fits
     /\ text # <<>> /\ text[Len(text)] # 0 /\ ~HasNulRun(text))
        => (result.status = "ok" /\ result.text = text)

\* A round trip of a text with an inner NUL whose payload holds one whole
\* copy of the message and a second, truncated inside a byte.
RoundTripWitness ==
    /\ cpc = "roundtrip"
    /\ text = <<65, 0, 65>>
    /\ Capacity > Len(Message)
    /\ Capacity % 8 # 0
    /\ result.status = "ok" /\ result.text = text

\* C2: the payload holds exactly width*height*depth bits, in the shape
\* (depth, height, width), and its bit at flat index i is bit i mod len(M)
\* of the message M = text_to_bits(text) followed by 32 zero bits.
PayloadIsTiledMessage ==
    (cpc \in {"encoded", "roundtrip"}) =>
        LET flat == Flatten(payload)
            M == Message
        IN /\ Len(payload) = shape.depth
           /\ \A d \in 1..shape.depth :
                 /\ Len(payload[d]) = shape.height
                 /\ \A h \in 1..shape.height : Len(payload[d][h]) = shape.width
           /\ Len(flat) = Capacity
           /\ \A i \in 1..Capacity : flat[i] = M[((i - 1) % Len(M)) + 1]

\* A payload that went through two rounds of the tiling loop and was then
\* cut in the middle of a copy of the message.
PayloadWitness ==
    /\ cpc = "encoded"
    /\ text = <<65>>
    /\ Capacity > 2 * Len(Message)
    /\ Capacity % Len(Message) # 0

\* C3: the text decode returns is a decoded non-empty fragment whose tally
\* is maximal among the decoded non-empty fragments; the stream with the
\* fragments "A", "A", "B" decodes to "A".
MajorityVote ==
    /\ (Decoded /\ result.status = "ok") =>
          LET ft == FragmentTexts(image)
              won == TallyOf(ft, result.text)
          IN /\ result.text \in CandidateTexts(ft)
             /\ \A t \in CandidateTexts(ft) : TallyOf(ft, t) <= won
    /\ (cpc = "decoded"
        /\ bits_to_bytearray(image) = <<65, 0, 0, 0, 0, 65, 0, 0, 0, 0, 66>>)
          => (result.status = "ok" /\ result.text = <<65>>)

\* The stream with the fragments "B", "A", "A" has been decoded.
MajorityVoteWitness ==
    /\ cpc = "decoded"
    /\ bits_to_bytearray(image) = <<66, 0, 0, 0, 0, 65, 0, 0, 0, 0, 65>>
    /\ result.text = <<65>>

\* C4: decode of an existing image fails, with "Failed to find message.",
\* exactly when no fragment decodes to a non-empty text; otherwise it
\* returns a text, whatever the other fragments are.
DecodeFailsIffNoCandidate ==
    Decoded =>
        LET ft == FragmentTexts(image)
        IN /\ result.status \in {"ok", "Failed to find message."}
           /\ (result.status = "Failed to find message.")
                 <=> ~(\E i \in DOMAIN ft : Decodable(ft, i))

\* One decodable fragment after a fragment that is not valid UTF-8 and an
\* empty one: decode returns it.
DecodeSkipsWitness ==
    /\ cpc = "decoded"
    /\ bits_to_bytearray(image) = <<195, 0, 0, 0, 0, 0, 0, 0, 0, 65>>
    /\ result.status = "ok" /\ result.text = <<65>>

\* C10: among the candidates of maximal tally decode returns the one whose
\* first occurrence in the stream is the earliest.
TieBreakEarliest ==
    (Decoded /\ result.status = "ok") =>
        LET ft == FragmentTexts(image)
            won == TallyOf(ft, result.text)
            first == FirstOccurrence(ft, result.text)
        IN \A t \in CandidateTexts(ft) :
              (TallyOf(ft, t) = won) => first <= FirstOccurrence(ft, t)

\* "B" and "A" tie with one occurrence each and "B" comes first.
TieBreakWitness ==
    /\ cpc = "decoded"
    /\ bits_to_bytearray(image) = <<66, 0, 0, 0, 0, 65>>
    /\ result.text = <<66>>

\* =================================================================== fit
\* ------------------------------------------------------------------ bounds
\* Epochs requested over all the fit calls, batches of a loader.
MaxEpochs == 2
MaxBatches == 1

\* Parameter values are in tenths: clamp_(-0.1, 0.1) is the range -1..1.
ClipMin == -1
ClipMax == 1
ParamVals == {-2, -1, 0, 1, 2}

\* self.critic_optimizer = None
None == [id |-> 0, params |-> {}]
\* self.epochs is not an attribute of the object before the first fit.
NoEpochs == -1

Parameters(net) ==
    CASE net = "critic" -> {"critic.weight", "critic.bias"}
      [] net = "encoder" -> {"encoder.weight"}
      [] net = "decoder" -> {"decoder.weight"}
AllParameters == Parameters("critic") \cup Parameters("encoder") \cup Parameters("decoder")

\* metrics = {field: list() for field in METRIC_FIELDS}: the lengths of the
\* lists the critic phase, the coder phase and the validation append to.
NoMetrics == [critic |-> 0, coders |-> 0, val |-> 0]
NoArgs == [epochs |-> 0, train |-> 0, validate |-> 0]

\* _get_optimizers: the parameter lists of the two Adam optimizers.
CriticOptimizerParams == Parameters("critic")
DecoderOptimizerParams_All == AllParameters
DecoderOptimizerParams == Parameters("decoder") \cup Parameters("encoder")

\* if self.critic_optimizer is None
NeedsOptimizers_Always == TRUE
NeedsOptimizers == critic_optimizer = None

\* p.data.clamp_(-0.1, 0.1)
Clamp_Off(v) == v
Clamp(v) == IF v < ClipMin THEN ClipMin ELSE IF v > ClipMax THEN ClipMax ELSE v

\* One Adam step moves a parameter by at most one unit of the value grid.
Moves(v) == {v - 1, v, v + 1} \cap ParamVals

\* A gradient is the set of backward passes that accumulated into it since
\* it was last zeroed; a pass of the batch being processed is "current".
Deposit(phase) == [phase |-> phase, age |-> "current"]
Aged(g) == [q \in AllParameters |-> {[phase |-> d.phase, age |-> "earlier"] : d \in g[q]}]
\* A batch that leaves zero_grad() out.
ZeroGrad_Skipped(g, optimizer) == g
\* optimizer.zero_grad()
ZeroGrad(g, optimizer) == [q \in AllParameters |-> IF q \in optimizer.params THEN {} ELSE g[q]]
\* loss.backward(): accumulates into every parameter the loss depends on.
Backward(g, phase, reached) ==
    [q \in AllParameters |-> IF q \in reached THEN g[q] \cup {Deposit(phase)} ELSE g[q]]
\* (cover_score - generated_score).backward(): the critic, and the encoder
\* that produced generated.
CriticLossParameters == Parameters("critic") \cup Parameters("encoder")
\* total_loss.backward(): the encoder, the decoder, and through
\* generated_score the critic.
CoderLossParameters == AllParameters

\* optimizer.step(): the new values of the parameters.
StepTargets(optimizer, g) ==
    {new \in [AllParameters -> ParamVals] :
        \A q \in AllParameters :
            IF q \in optimizer.params /\ g[q] # {}
            THEN new[q] \in Moves(params[q])
            ELSE new[q] = params[q]}

\* The object after __init__, with or without a log_dir and with the
\* initial parameters p0.
Constructed(ld, p0) ==
    /\ pc = "idle"
    /\ log_dir = ld
    /\ critic_optimizer = None
    /\ decoder_optimizer = None
    /\ epochs = NoEpochs
    /\ params = p0
    /\ grad = [q \in AllParameters |-> {}]
    /\ applied = [q \in AllParameters |-> {}]
    /\ fit_args = NoArgs
    /\ epoch = 0
    /\ batch = 0
    /\ metrics = NoMetrics
    /\ fit_metrics = [epoch |-> 0]
    /\ history = <<>>
    /\ checkpoints = <<>>
    /\ requested = 0
    /\ built = 0
    /\ critic_fitted = FALSE

FitInit == \E ld \in BOOLEAN, p0 \in [AllParameters -> ParamVals] : Constructed(ld, p0)

\* fit(train, validate, epochs): up to the head of the epoch loop.
FitCall ==
    /\ pc = "idle"
    /\ \E n \in 0..(MaxEpochs - requested), nt \in 0..MaxBatches, nv \in 0..MaxBatches :
          fit_args' = [epochs |-> n, train |-> nt, validate |-> nv]
    /\ requested' = requested + fit_args'.epochs
    /\ IF NeedsOptimizers
       THEN /\ critic_optimizer' = [id |-> built + 1, params |-> CriticOptimizerParams]
            /\ decoder_optimizer' = [id |-> built + 1, params |-> DecoderOptimizerParams]
            /\ built' = built + 1
            /\ epochs' = 0
       ELSE UNCHANGED <<critic_optimizer, decoder_optimizer, built, epochs>>
    \* sample_cover = next(iter(validate))[0] raises on an empty loader
    /\ pc' = IF log_dir /\ fit_args'.validate = 0 THEN "aborted" ELSE "epoch"
    /\ epoch' = 0
    /\ UNCHANGED <<cvars, lvars, log_dir, params, grad, applied, batch, metrics, fit_metrics,
                   history, checkpoints, critic_fitted>>

\* for epoch in range(1, epochs + 1): self.epochs += 1; metrics = {...}
EpochStart ==
    /\ pc = "epoch"
    /\ epoch < fit_args.epochs
    /\ epoch' = epoch + 1
    /\ epochs' = epochs + 1
    /\ metrics' = NoMetrics
    /\ batch' = 0
    /\ pc' = "critic"
    /\ UNCHANGED <<cvars, lvars, log_dir, critic_optimizer, decoder_optimizer, params, grad, applied,
                   fit_args, fit_metrics, history, checkpoints, requested,
                   built, critic_fitted>>

\* The epoch loop is exhausted: fit returns.
FitReturn ==
    /\ pc = "epoch"
    /\ epoch >= fit_args.epochs
    /\ pc' = "idle"
    /\ UNCHANGED <<cvars, lvars, log_dir, critic_optimizer, decoder_optimizer, epochs, params, grad,
                   applied, fit_args, epoch, batch, metrics, fit_metrics, history,
                   checkpoints, requested, built, critic_fitted>>

\* _fit_critic, one batch up to critic_optimizer.step().
CriticStep ==
    /\ pc = "critic"
    /\ batch < fit_args.train
    /\ LET zeroed == ZeroGrad(Aged(grad), critic_optimizer)
           g == Backward(zeroed, "critic", CriticLossParameters)
       IN /\ grad' = g
          /\ applied' = [q \in AllParameters |->
                            IF q \in critic_optimizer.params THEN g[q] ELSE {}]
          /\ params' \in StepTargets(critic_optimizer, g)
    /\ pc' = "clamp"
    /\ UNCHANGED <<cvars, lvars, log_dir, critic_optimizer, decoder_optimizer, epochs, fit_args,
                   epoch, batch, metrics, fit_metrics, history, checkpoints, requested, built, critic_fitted>>

\* _fit_critic, the rest of the batch: the clamp of every critic parameter
\* and the two metrics.
CriticClamp ==
    /\ pc = "clamp"
    /\ params' = [q \in AllParameters |->
                    IF q \in Parameters("critic") THEN Clamp(params[q]) ELSE params[q]]
    /\ metrics' = [metrics EXCEPT !.critic = @ + 1]
    /\ batch' = batch + 1
    /\ critic_fitted' = TRUE
    /\ pc' = "critic"
    /\ UNCHANGED <<cvars, lvars, log_dir, critic_optimizer, decoder_optimizer, epochs, grad, applied,
                   fit_args, epoch, fit_metrics, history, checkpoints, requested, built>>

\* _fit_critic returns; _fit_coders starts.
CriticDone ==
    /\ pc = "critic"
    /\ batch >= fit_args.train
    /\ batch' = 0
    /\ pc' = "coders"
    /\ UNCHANGED <<cvars, lvars, log_dir, critic_optimizer, decoder_optimizer, epochs, params, grad,
                   applied, fit_args, epoch, metrics, fit_metrics, history,
                   checkpoints, requested, built, critic_fitted>>

\* _fit_coders, one batch.
CoderBatch ==
    /\ pc = "coders"
    /\ batch < fit_args.train
    /\ LET zeroed == ZeroGrad(Aged(grad), decoder_optimizer)
           g == Backward(zeroed, "coders", CoderLossParameters)
       IN /\ grad' = g
          /\ applied' = [q \in AllParameters |->
                            IF q \in decoder_optimizer.params THEN g[q] ELSE {}]
          /\ params' \in StepTargets(decoder_optimizer, g)
    /\ metrics' = [metrics EXCEPT !.coders = @ + 1]
    /\ batch' = batch + 1
    /\ UNCHANGED <<cvars, lvars, pc, log_dir, critic_optimizer, decoder_optimizer, epochs, fit_args,
                   epoch, fit_metrics, history, checkpoints, requested, built,
                   critic_fitted>>

\* _fit_coders returns; _validate starts.
CodersDone ==
    /\ pc = "coders"
    /\ batch >= fit_args.train
    /\ batch' = 0
    /\ pc' = "validate"
    /\ UNCHANGED <<cvars, lvars, log_dir, critic_optimizer, decoder_optimizer, epochs, params, grad,
                   applied, fit_args, epoch, metrics, fit_metrics, history,
                   checkpoints, requested, built, critic_fitted>>

\* _validate, one batch: forward passes and metrics only.
ValidateBatch ==
    /\ pc = "validate"
    /\ batch < fit_args.validate
    /\ metrics' = [metrics EXCEPT !.val = @ + 1]
    /\ batch' = batch + 1
    /\ UNCHANGED <<cvars, lvars, pc, log_dir, critic_optimizer, decoder_optimizer, epochs, params,
                   grad, applied, fit_args, epoch, fit_metrics, history, checkpoints,
                   requested, built, critic_fitted>>

\* _validate returns.
ValidateDone ==
    /\ pc = "validate"
    /\ batch >= fit_args.validate
    /\ pc' = "finalize"
    /\ UNCHANGED <<cvars, lvars, log_dir, critic_optimizer, decoder_optimizer, epochs, params, grad,
                   applied, fit_args, epoch, batch, metrics, fit_metrics, history,
                   checkpoints, requested, built, critic_fitted>>

\* The end of the epoch: the means (sum(v) / len(v) raises on an empty
\* list), the record, and with a log_dir the history and the checkpoint.
Finalize ==
    /\ pc = "finalize"
    /\ IF metrics.critic = 0 \/ metrics.coders = 0 \/ metrics.val = 0
       THEN /\ pc' = "aborted"
            /\ UNCHANGED <<fit_metrics, history, checkpoints>>
       ELSE /\ fit_metrics' = [epoch |-> epoch]
            /\ IF log_dir
               THEN /\ history' = Append(history, fit_metrics')
                    /\ checkpoints' = Append(checkpoints,
                           [name |-> epochs, epochs |-> epochs,
                            history |-> Len(history')])
               ELSE UNCHANGED <<history, checkpoints>>
            /\ pc' = "epoch"
    /\ UNCHANGED <<cvars, lvars, log_dir, critic_optimizer, decoder_optimizer, epochs, params, grad,
                   applied, fit_args, epoch, batch, metrics, requested, built,
                   critic_fitted>>

FitNext ==
    \/ FitCall \/ EpochStart \/ FitReturn
    \/ CriticStep \/ CriticClamp \/ CriticDone
    \/ CoderBatch \/ CodersDone
    \/ ValidateBatch \/ ValidateDone
    \/ Finalize

\* ================================================================== load
\* An argument left at its default is Absent (None); otherwise it is a
\* string, possibly the empty one.
Absent == "<None>"
Architectures == {Absent, "", "basic", "dense"}
Paths == {Absent, "", "weights.bin", "models/1.bpp-0.5.p"}
Gpus == {-1, 0}

\* The truth value Python gives an optional string.
Truthy(x) == x # Absent /\ x # ""

NotLoaded == [status |-> "none", from |-> "none", file |-> Absent,
              verbose |-> FALSE, device |-> "none"]
NoLoadArgs == [architecture |-> Absent, path |-> Absent, gpu |-> 0, verbose |-> FALSE]

LoadInit ==
    /\ lpc = "start"
    /\ load_args = NoLoadArgs
    /\ loaded = NotLoaded

\* if architecture and not path
TakesPretrained(architecture, path) == Truthy(architecture) /\ ~Truthy(path)
\* elif (architecture is None and path is None) or (architecture and path)
Rejects(architecture, path) ==
    \/ architecture = Absent /\ path = Absent
    \/ Truthy(architecture) /\ Truthy(path)

\* SteganoGAN.load(architecture, path, gpu, verbose). exists: whether the
\* file torch.load is given can be read; cuda: torch.cuda.is_available().
Load ==
    /\ lpc = "start"
    /\ \E a \in Architectures, f \in Paths, g \in Gpus, v \in BOOLEAN,
          exists \in BOOLEAN, cuda \in BOOLEAN :
          /\ load_args' = [architecture |-> a, path |-> f, gpu |-> g, verbose |-> v]
          /\ LET device == IF g > -1 /\ cuda THEN "cuda" ELSE "cpu"
                 open(from, file) ==
                     \* torch.load(path, map_location=device)
                     IF file = Absent
                     THEN [NotLoaded EXCEPT !.status = "torch.load: not a path",
                                            !.from = from]
                     ELSE IF file = "" \/ ~exists
                     THEN [NotLoaded EXCEPT !.status = "FileNotFoundError",
                                            !.from = from, !.file = file]
                     ELSE [status |-> "loaded", from |-> from, file |-> file,
                           verbose |-> v, device |-> device]
             IN loaded' =
                  IF TakesPretrained(a, f)
                  THEN open("bin", a \o ".steg")
                  ELSE IF Rejects(a, f)
                  THEN [NotLoaded EXCEPT !.status = "ValueError"]
                  ELSE open("path", f)
    /\ lpc' = "returned"
    /\ UNCHANGED <<cvars, tvars>>

LoadNext == Load

\* ======================================================== specifications
\* Each specification runs one part of the program from its initial state
\* and holds the other parts at theirs.
Unbuilt == Constructed(FALSE, [q \in AllParameters |-> 0])

CodecStart == CodecInit /\ Unbuilt /\ LoadInit
FitStart == FitInit /\ CodecInit /\ LoadInit
LoadStart == LoadInit /\ CodecInit /\ Unbuilt

CodecSpec == CodecStart /\ [][CodecNext]_vars
FitSpec == FitStart /\ [][FitNext]_vars
LoadSpec == LoadStart /\ [][LoadNext]_vars

\* ======================================================== fit properties
InClipRange(v) == ClipMin <= v /\ v <= ClipMax
CoderParameters == Parameters("encoder") \cup Parameters("decoder")

\* C5: once a critic batch has completed, every critic parameter lies in
\* [-0.1, 0.1] at the end of each critic batch and from then on: in the
\* coder phase, the validation, the end of the epoch, and between and into
\* later fit calls. (Inside a critic batch, between the optimizer step and
\* the clamp, is the one place left out.)
CriticClipped ==
    (critic_fitted /\ pc # "clamp")
        => \A q \in Parameters("critic") : InClipRange(params[q])

\* The coder phase of the second epoch, after a coder batch, with a critic
\* parameter on the edge of the range.
CriticClippedWitness ==
    /\ critic_fitted
    /\ epochs = 2
    /\ pc = "coders"
    /\ batch >= 1
    /\ params["critic.weight"] = ClipMax
    /\ params["critic.bias"] = ClipMin

\* C6: the optimizers are built, and the epoch counter set to 0, by the
\* first fit call only; every later call keeps the same two optimizers, and
\* the counter is the number of epochs requested by the earlier calls plus
\* the index of the running epoch, so that it is the sum of the epochs
\* requested whenever fit has returned.
Resumable ==
    /\ built <= 1
    /\ (built = 0) => (critic_optimizer = None /\ decoder_optimizer = None
                       /\ epochs = NoEpochs)
    /\ (built >= 1) => (critic_optimizer.id = 1 /\ decoder_optimizer.id = 1)
    /\ (built >= 1 /\ pc = "idle") => epochs = requested
    /\ (pc \notin {"idle", "aborted"})
          => epochs = (requested - fit_args.epochs) + epoch

\* A second fit call has returned: it asked for one epoch, the calls before
\* it for another.
ResumableWitness ==
    /\ pc = "idle"
    /\ fit_args.epochs = 1
    /\ requested = 2
    /\ epochs = 2

\* C7 as stated: the k-th record of history carries the tag k, the number
\* that names the checkpoint written with it.
HistoryTaggedByEpochCounter ==
    \A k \in DOMAIN history :
        /\ history[k].epoch = k
        /\ history[k].epoch = checkpoints[k].name

\* C9: a critic batch leaves the encoder's and the decoder's parameters as
\* they are, a coder batch the critic's, and a validation batch all of them.
PhaseOwnsParameters ==
    [][/\ (pc \in {"critic", "clamp"})
            => \A q \in CoderParameters : params'[q] = params[q]
       /\ (pc = "coders")
            => \A q \in Parameters("critic") : params'[q] = params[q]
       /\ (pc = "validate") => params' = params]_vars

\* The end of an epoch in which a critic batch, a coder batch and a
\* validation batch have run.
PhaseOwnsParametersWitness ==
    /\ pc = "finalize"
    /\ metrics.critic >= 1
    /\ metrics.coders >= 1
    /\ metrics.val >= 1
    /\ \A q \in AllParameters : applied[q] # {} <=> q \in CoderParameters

\* The phase whose backward pass belongs to the optimizer that owns q.
OwnPhase(q) == IF q \in Parameters("critic") THEN "critic" ELSE "coders"

\* C11: no stale gradients. Every gradient an optimizer step read on a
\* parameter it updates was accumulated only by the backward pass of the
\* current batch of that optimizer's own phase: what a critic-phase backward
\* left on the encoder, and what a coder-phase backward left on the critic,
\* was zeroed before the owning optimizer stepped; and the stepping
\* optimizer read a gradient on each of its parameters.
NoStaleGradients ==
    /\ \A q \in AllParameters : applied[q] \subseteq {Deposit(OwnPhase(q))}
    /\ pc = "clamp" => \A q \in Parameters("critic") : applied[q] = {Deposit("critic")}

\* The critic steps in a second epoch: the coder phase of the first epoch
\* had left its gradient on the critic, the step read the current critic
\* pass alone, and the encoder, which this step does not own, still carries
\* the earlier coder pass beside the current critic pass.
NoStaleGradientsWitness ==
    /\ pc = "clamp"
    /\ epochs >= 2
    /\ \A q \in Parameters("critic") : applied[q] = {Deposit("critic")}
    /\ grad["encoder.weight"] = {[phase |-> "coders", age |-> "earlier"], Deposit("critic")}

\* ======================================================= load properties
\* An argument is provided when it holds a name: a non-empty string.
Provided(x) == Truthy(x)

\* C8 as stated: load raises the ValueError when both arguments or neither
\* are provided, and otherwise goes to the pretrained directory (an
\* architecture alone) or to the path (a path alone) without raising it.
LoadTakesExactlyOne ==
    (lpc = "returned") =>
        LET a == load_args.architecture
            f == load_args.path
        IN IF Provided(a) = Provided(f)
           THEN loaded.status = "ValueError"
           ELSE /\ loaded.status # "ValueError"
                /\ loaded.from = (IF Provided(a) THEN "bin" ELSE "path")
                /\ loaded.file = (IF Provided(a) THEN a \o ".steg" ELSE f)

====
